---- MODULE Spec2Model ----
(***************************************************************************)
(* Model of eye_care.py: the gamma controller (GammaController), the      *)
(* controller glue of EyeCareApp (the Tk callbacks, run on the UI thread)  *)
(* and the reminder loop (start_reminder_thread.loop, run on a daemon      *)
(* thread).                                                                *)
(*                                                                         *)
(* Numbers.  Python floats are modelled in fixed point: a colour channel   *)
(* (0..255) in hundredths, a ratio (0.0..1.0) in units of 1/RatioScale.    *)
(* Over the temperatures modelled (kelvin <= 6600, which covers the        *)
(* slider range 1900..6500 and every preset) each ratio the code computes  *)
(* is exactly 0.0 or 1.0, and the fixed-point values are exact.  The       *)
(* branches of _kelvin_to_rgb for temp > 66 use non-integer negative       *)
(* powers and are outside the modelled domain: the operators have no       *)
(* value there.  brightness / 100.0 is a double, and the rounding of the   *)
(* float product of line 124 is modelled bit for bit.                      *)
(*                                                                         *)
(* Time.  time.time() is modelled as an integer number of seconds, `now`.  *)
(* It advances only while the reminder thread sleeps; time.sleep(1) lasts  *)
(* at least one second and may last longer.  The callbacks of the UI       *)
(* thread, and the time the reminder thread waits for them, take no time   *)
(* on this clock.                                                          *)
(*                                                                         *)
(* Threads.  root.after called on the reminder thread is carried out by    *)
(* the Tk main loop of the UI thread: the call returns once the UI thread  *)
(* is back in its event loop, and raises RuntimeError when the UI thread   *)
(* has not entered mainloop() yet.                                         *)
(***************************************************************************)
EXTENDS Integers, Sequences, FiniteSets, TLC

VARIABLES
    supported,          \* GammaController.supported
    ramp,               \* the table installed on the display (the sink)
    lastRequest,        \* arguments of the last set_gamma call, or <<>>
    lastResult,         \* what the last set_gamma call returned
    config,             \* EyeCareApp.config
    enabled_var,        \* tk.BooleanVar bound to the eye-care Checkbutton
    temp_var,           \* tk.IntVar bound to the temperature Scale
    brightness_var,     \* tk.IntVar bound to the brightness Scale
    compensation_var,   \* tk.BooleanVar bound to the compensation Checkbutton
    reminder_var,       \* tk.BooleanVar bound to the reminder Checkbutton
    interval_var,       \* tk.IntVar bound to the interval Spinbox
    running,            \* EyeCareApp.running
    last_reminder,      \* EyeCareApp.last_reminder
    now,                \* time.time(), in seconds
    reminders,          \* number of show_reminder calls (Reminder events)
    ui_pc,              \* position of the UI thread
    ui_op,              \* the callback the UI thread runs, or ran last
    ui_arg,             \* its argument
    was_enabled,        \* enabled_var when that callback was entered
    opCalls,            \* set_gamma calls made by that callback
    sched_pc,           \* position of the reminder thread in loop()
    tick_enabled,       \* config["reminder_enabled"] as read at line 385
    interval,           \* the local `interval` of loop(), line 386
    committed,          \* the reminder fields as of the last whole save_config
    tick_snaps,         \* the values `committed` took during the current tick
    tick_clean,         \* no save_config has overlapped the current tick
    reconf,             \* <<how save_config last changed the interval, the
                        \* interval before>>, until a tick that began after
                        \* the change has ended
    remind_label,       \* text of EyeCareApp.remind_label
    label_posts,        \* update_remind_label calls posted and not yet run
    probe_in,           \* argument of the last direct _kelvin_to_rgb call
    probe_out,          \* what it returned
    probe_fn,           \* which function was called on its own, "none" at first
    last_shown,         \* now at the last show_reminder call (line 388)
    prev_idle           \* the tick before this one read reminder_enabled false

vars == <<supported, ramp, lastRequest, lastResult, config, enabled_var,
          temp_var, brightness_var, compensation_var, reminder_var,
          interval_var, running, last_reminder, now, reminders, ui_pc, ui_op,
          ui_arg, was_enabled, opCalls, sched_pc, tick_enabled, interval,
          committed, tick_snaps, tick_clean, reconf, remind_label,
          label_posts, probe_in, probe_out, probe_fn, last_shown, prev_idle>>

otherVars == <<tick_clean, reconf, remind_label, label_posts, probe_in,
               probe_out, probe_fn, last_shown, prev_idle>>
histVars == <<last_shown, prev_idle>>
labelVars == <<remind_label, label_posts>>
probeVars == <<probe_in, probe_out, probe_fn>>

----------------------------------------------------------------------------
(* Bounds of the model *)

MaxTime == 122          \* the clock stops advancing here
MaxDrift == 1           \* one-second sleeps are modelled while now % 60 < MaxDrift
MaxPosts == 1           \* posted label updates kept apart; later ones coalesce
MaxStartup == 1         \* the clock reaches at most this before mainloop() is entered

(* Program constants *)

RampSize == 256         \* entries per channel
RampMax == 65535        \* c_ushort maximum
RampStep == 256         \* base = i * 256
DefaultTemp == 6500     \* restore_default / reset
DefaultBrightness == 100
InitTemp == 5000        \* the default configuration
InitInterval == 45
SecondsPerMinute == 60
SleepSeconds == 1

(* Fixed point *)

Unit == 100             \* channel values and roots are kept in hundredths
RatioScale == 10000     \* a ratio r is kept as r * RatioScale

Min(a, b) == IF a < b THEN a ELSE b
Max(a, b) == IF a > b THEN a ELSE b
Clamp(x, lo, hi) == Max(lo, Min(hi, x))

----------------------------------------------------------------------------
(* GammaController._kelvin_to_rgb *)

\* A natural number as its digits in base Unit, lowest first: the powers
\* below do not fit a machine integer.
RECURSIVE TimesDigits(_, _, _)
\* the digits of digits * y + carry
TimesDigits(digits, y, carry) ==
    IF digits = <<>>
    THEN IF carry = 0
         THEN <<>>
         ELSE <<carry % Unit>> \o TimesDigits(<<>>, y, carry \div Unit)
    ELSE LET p == Head(digits) * y + carry
         IN  <<p % Unit>> \o TimesDigits(Tail(digits), y, p \div Unit)

RECURSIVE DigitsValue(_)
DigitsValue(digits) ==
    IF digits = <<>> THEN 0 ELSE Head(digits) + Unit * DigitsValue(Tail(digits))

RECURSIVE PowDigits(_, _)
\* the digits of y ** n
PowDigits(y, n) == IF n = 0 THEN <<1>> ELSE TimesDigits(PowDigits(y, n - 1), y, 0)

\* (y / Unit) ** n in hundredths, rounded down: y ** n without its n - 1
\* lowest digits
PowScaled(y, n) ==
    IF n = 0
    THEN Unit
    ELSE LET p == PowDigits(y, n)
         IN  IF Len(p) < n THEN 0 ELSE DigitsValue(SubSeq(p, n, Len(p)))

\* (y / Unit) ** n <= x100 / Unit, exactly
PowAtMost(y, n, x100) ==
    LET p == PowDigits(y, n)
        whole == PowScaled(y, n)
    IN  \/ whole < x100
        \/ /\ whole = x100
           /\ \A k \in 1..Min(n - 1, Len(p)) : p[k] = 0

RECURSIVE RootSearch(_, _, _)
\* the largest y of lo..hi with (y / Unit) ** 10 <= x100 / Unit; lo is one
RootSearch(lo, hi, x100) ==
    IF lo = hi
    THEN lo
    ELSE LET mid == (lo + hi + 1) \div 2
         IN  IF PowAtMost(mid, 10, x100)
             THEN RootSearch(mid, hi, x100)
             ELSE RootSearch(lo, mid - 1, x100)

\* x ** 0.1 for x = x100 / Unit >= 0, in hundredths, rounded down
Root10(x100) == RootSearch(0, 3 * Unit, x100)

\* lines 51-52; kelvin is temp * 100.  The branch of lines 53-56 (temp > 66,
\* a power with a negative non-integer exponent) is not modelled: the
\* operator has no value there.
KelvinRed(kelvin) == CASE kelvin <= 66 * Unit -> 255 * Unit

\* lines 59-61 and 65.  The branch of lines 62-64 (temp > 66) is not
\* modelled: the operator has no value there.
KelvinGreen(kelvin) ==
    CASE kelvin <= 66 * Unit ->
        Clamp(IF kelvin > 1 * Unit
                 THEN (9947 * Root10(kelvin)) \div Unit - 16112
                 ELSE 0,
              0, 255 * Unit)

\* lines 68-75
KelvinBlue(kelvin) ==
    IF kelvin >= 66 * Unit THEN 255 * Unit
    ELSE IF kelvin <= 19 * Unit THEN 0
    ELSE Clamp(IF kelvin - 10 * Unit > 0
                  THEN (13852 * Root10(kelvin - 10 * Unit)) \div Unit - 30504
                  ELSE 0,
               0, 255 * Unit)

\* line 77: the three ratios, each times RatioScale
kelvin_to_rgb(kelvin) ==
    << (KelvinRed(kelvin) * RatioScale) \div (255 * Unit),
       (KelvinGreen(kelvin) * RatioScale) \div (255 * Unit),
       (KelvinBlue(kelvin) * RatioScale) \div (255 * Unit) >>

\* line 81, on ratios times RatioScale
calculate_luminance(r, g, b) == (2126 * r + 7152 * g + 722 * b) \div RatioScale

\* int(): truncation toward zero
TruncDiv(a, b) == IF a >= 0 THEN a \div b ELSE -((-a) \div b)

\* lines 96-111: the channel ratios after brightness compensation
gamma_ratios(temperature, compensate_brightness) ==
    LET rgb == kelvin_to_rgb(temperature)
        current_luminance == calculate_luminance(rgb[1], rgb[2], rgb[3])
        base_luminance == calculate_luminance(RatioScale, RatioScale, RatioScale)
        compensation ==
            Min((3 * RatioScale) \div 2,
                (base_luminance * RatioScale) \div current_luminance)
    IN  IF compensate_brightness /\ temperature < DefaultTemp
           /\ current_luminance > 0
        THEN [ch \in 1..3 |->
                 Min(RatioScale, (rgb[ch] * compensation) \div RatioScale)]
        ELSE [ch \in 1..3 |-> rgb[ch]]

RECURSIVE FloorLog2(_, _)
\* the integer g with 2 ** g <= n / d < 2 ** (g + 1), for n, d > 0
FloorLog2(n, d) ==
    IF n >= 2 * d THEN FloorLog2(n, 2 * d) + 1
    ELSE IF n < d THEN FloorLog2(2 * n, d) - 1
    ELSE 0

RECURSIVE Pow2(_)
Pow2(k) == IF k = 0 THEN 1 ELSE 2 * Pow2(k - 1)

RECURSIVE Pow2Mod(_, _)
\* 2 ** k modulo m
Pow2Mod(k, m) == IF k = 0 THEN 1 % m ELSE (2 * Pow2Mod(k - 1, m)) % m

\* Line 114, brightness / 100.0: the double nearest to a / 100 has a 53-bit
\* significand, so it is a / 100 rounded at the bit 2 ** -(52 - g), with g
\* the exponent of a / 100.  The value is how far the double lies below
\* a / 100, in hundredths of that bit; 0 when it lies on or above.
FactorShortfall(a) ==
    LET g == FloorLog2(a, 100)
        r == (a * Pow2Mod(52 - g, 100)) % 100
    IN  IF r < 50 THEN r ELSE 0

\* FactorShortfall over the brightnesses up to twice the default, computed
\* once
ShortfallTable == [a \in 1..(2 * DefaultBrightness) |-> FactorShortfall(a)]

Shortfall(a) ==
    IF a \in DOMAIN ShortfallTable THEN ShortfallTable[a] ELSE FactorShortfall(a)

\* Line 124, int(base * brightness_factor) for base >= 0 and a brightness
\* a > 0: the float product truncated.  Where base * a / 100 is not an
\* integer its fraction is at least 1/25 and the rounding of the floats
\* cannot reach it.  Where it is an integer N, the product comes out as the
\* double just below N when the shortfall of the factor, times base, is more
\* than half the gap between N and that double, and int() then gives N - 1.
ScaledBase(base, a) ==
    LET N == (base * a) \div 100
        g == FloorLog2(a, 100)
        e == FloorLog2(N, 1)
        x == e - 1 - g - (IF N = Pow2(e) THEN 1 ELSE 0)
        lost == base * Shortfall(a)
    IN  IF N > 0 /\ (base * a) % 100 = 0 /\ lost > 0
           /\ (IF x >= 0 THEN lost > 100 * Pow2(x) ELSE lost * Pow2(-x) > 100)
        THEN N - 1
        ELSE N

\* line 124 for any integer brightness: int() truncates toward zero
brightness_base(base, brightness) ==
    IF brightness = 0 \/ base = 0 THEN 0
    ELSE IF brightness > 0 THEN ScaledBase(base, brightness)
    ELSE -ScaledBase(base, -brightness)

\* lines 121-129 with the index taken one too high
ramp_entry_offset(i, brightness, ratio) ==
    LET base == brightness_base((i + 1) * RampStep, brightness)
    IN  Min(RampMax, Max(0, TruncDiv(base * ratio, RatioScale)))

\* lines 121-129: one entry of the table.  The ratio is one a float holds
\* exactly (0, 1 or a multiple of 1/4), so base * ratio is exact.
ramp_entry(i, brightness, ratio) ==
    LET base == brightness_base(i * RampStep, brightness)
    IN  Min(RampMax, Max(0, TruncDiv(base * ratio, RatioScale)))

\* lines 96-129: the table set_gamma hands to SetDeviceGammaRamp
gamma_ramp(temperature, brightness, compensate_brightness) ==
    LET ratios == gamma_ratios(temperature, compensate_brightness)
    IN  [ch \in 1..3 |->
            [i \in 0..(RampSize - 1) |-> ramp_entry(i, brightness, ratios[ch])]]

\* lines 113-129: the table built from three channel ratios (each times
\* RatioScale) and a brightness
build_ramp(ratios, brightness) ==
    [ch \in 1..3 |->
        [i \in 0..(RampSize - 1) |-> ramp_entry(i, brightness, ratios[ch])]]

\* The identity ramp of the specification: entry[i] = min(65535, i * 256)
IdentityRamp ==
    [ch \in 1..3 |-> [i \in 0..(RampSize - 1) |-> Min(RampMax, i * RampStep)]]

----------------------------------------------------------------------------
(* Inputs *)

\* positions of the temperature Scale (from_=1900, to=6500), in tenths:
\* Tk hands on_temp_change the position as a float
ScaleTemps == {19000, 34507, 65000}
\* the preset buttons, lines 247-252
Presets == {1900, 2400, 3400, 6500}
\* positions of the brightness Scale (from_=20, to=100), in tenths; at
\* brightness 29 the float product of line 124 falls below the quotient
ScaleBrights == {200, 290, 505, 1000}
\* values given to the interval Spinbox, in minutes
IntervalInputs == {1, 2}

\* what eye_care_config.json may hold when the program starts (load_config,
\* lines 509-516): nothing, or the settings of an earlier run
StoredTemps == {InitTemp, 3400}
StoredBrights == {DefaultBrightness, 50}
StoredIntervals == IntervalInputs \cup {15, InitInterval}

\* int(float(val)) for a Scale position given in tenths
IntOfFloat(val10) == TruncDiv(val10, 10)

\* every temperature and brightness set_gamma can be called with
TempDomain ==
    {IntOfFloat(v) : v \in ScaleTemps} \cup Presets \cup StoredTemps
        \cup {DefaultTemp}
BrightDomain ==
    {IntOfFloat(v) : v \in ScaleBrights} \cup StoredBrights
        \cup {DefaultBrightness}

\* gamma_ramp over these, computed once
RampTable ==
    [t \in TempDomain |-> [b \in BrightDomain |-> [c \in BOOLEAN |->
        gamma_ramp(t, b, c)]]]

----------------------------------------------------------------------------
(* GammaController.set_gamma, restore_default, cleanup *)

\* lines 131-132 without the test of lines 92-93
set_gamma_unchecked(temperature, brightness, compensate_brightness, ok) ==
    /\ lastRequest' = <<temperature, brightness, compensate_brightness>>
    /\ IF ok
       THEN /\ ramp' = RampTable[temperature][brightness][compensate_brightness]
            /\ lastResult' = TRUE
       ELSE /\ ramp' = ramp
            /\ lastResult' = FALSE

\* lines 92-93 and 131-132.  ok is what SetDeviceGammaRamp reports; a failed
\* call leaves the display's table as it was.
set_gamma(temperature, brightness, compensate_brightness, ok) ==
    /\ lastRequest' = <<temperature, brightness, compensate_brightness>>
    /\ IF supported /\ ok
       THEN /\ ramp' = RampTable[temperature][brightness][compensate_brightness]
            /\ lastResult' = TRUE
       ELSE /\ ramp' = ramp
            /\ lastResult' = FALSE

\* lines 134-136
restore_default(ok) == set_gamma(DefaultTemp, DefaultBrightness, FALSE, ok)

\* lines 359-364, on the configuration cfg
apply_settings(cfg, ok) ==
    set_gamma(cfg.temperature, cfg.brightness, cfg.brightness_compensation, ok)

NoSinkCall == UNCHANGED <<ramp, lastRequest, lastResult>>

\* the ramp the current settings ask for
SettingsRamp ==
    RampTable[config.temperature][config.brightness][config.brightness_compensation]

----------------------------------------------------------------------------
(* State after EyeCareApp.__init__, lines 151-178 *)

DefaultConfig ==
    [enabled |-> TRUE, temperature |-> InitTemp,
     brightness |-> DefaultBrightness, brightness_compensation |-> TRUE,
     reminder_enabled |-> TRUE, reminder_interval |-> InitInterval]

\* reconf when no change of the interval is waiting for its first tick
NoReconf == <<"none", 0>>

ReminderFields(cfg) == <<cfg.reminder_enabled, cfg.reminder_interval>>

\* every configuration load_config can leave in self.config; DefaultConfig
\* is the one of a start without a file
LoadedConfigs ==
    [enabled : BOOLEAN, temperature : StoredTemps, brightness : StoredBrights,
     brightness_compensation : BOOLEAN, reminder_enabled : BOOLEAN,
     reminder_interval : StoredIntervals]

\* __init__ has returned: the configuration is loaded (line 169), the
\* settings are applied when eye care is on (lines 172-173), the reminder
\* thread is started (line 175), and the UI thread has not entered
\* mainloop() yet.  The display starts with its own table.
Init ==
    /\ supported \in BOOLEAN
    /\ \E loaded \in LoadedConfigs, ok \in BOOLEAN :
          /\ config = loaded
          /\ IF loaded.enabled
             THEN /\ lastRequest = <<loaded.temperature, loaded.brightness,
                                     loaded.brightness_compensation>>
                  /\ lastResult = (supported /\ ok)
                  /\ ramp = IF supported /\ ok
                            THEN RampTable[loaded.temperature][loaded.brightness]
                                          [loaded.brightness_compensation]
                            ELSE IdentityRamp
                  /\ opCalls = 1
             ELSE /\ lastRequest = <<>>
                  /\ lastResult = FALSE
                  /\ ramp = IdentityRamp
                  /\ opCalls = 0
    /\ enabled_var = config.enabled
    /\ temp_var = config.temperature
    /\ brightness_var = config.brightness
    /\ compensation_var = config.brightness_compensation
    /\ reminder_var = config.reminder_enabled
    /\ interval_var = config.reminder_interval
    /\ running = TRUE
    /\ now = 0
    /\ last_reminder = 0
    /\ reminders = 0
    /\ ui_pc = "run"
    /\ ui_op = "init"
    /\ ui_arg = 0
    /\ was_enabled = FALSE
    /\ sched_pc = "while"
    /\ tick_enabled = FALSE
    /\ interval = 0
    /\ committed = ReminderFields(config)
    /\ tick_snaps = {}
    /\ tick_clean = FALSE
    /\ reconf = NoReconf
    /\ remind_label = <<>>
    /\ label_posts = 0
    /\ probe_in = 0
    /\ probe_out = <<>>
    /\ probe_fn = "none"
    /\ last_shown = 0
    /\ prev_idle = FALSE

schedVars == <<running, last_reminder, now, reminders, sched_pc, tick_enabled,
               interval>>
loopVars == <<last_reminder, now, reminders, sched_pc, tick_enabled, interval>>
settingVars == <<temp_var, brightness_var, compensation_var>>
reminderVars == <<reminder_var, interval_var>>
uiLocal == <<ui_op, ui_arg, was_enabled, opCalls>>

\* entry of a Tk callback on the UI thread
Enter(op, arg, calls) ==
    /\ ui_pc = "idle"
    /\ ui_op' = op
    /\ ui_arg' = arg
    /\ was_enabled' = enabled_var
    /\ opCalls' = calls

\* lines 528-533: run() enters the Tk main loop
run ==
    /\ ui_pc = "run"
    /\ ui_pc' = "idle"
    /\ NoSinkCall
    /\ UNCHANGED <<supported, config, enabled_var, settingVars, reminderVars,
                   schedVars, uiLocal, committed, tick_snaps>>
    /\ UNCHANGED otherVars

----------------------------------------------------------------------------
(* EyeCareApp callbacks, up to their call of save_config *)

\* lines 317-322, entered with enabled_var already set to v by the widget
\* (line 220) or by tray_toggle (line 459)
toggle_eye_care(op, v, ok) ==
    /\ Enter(op, 0, 1)
    /\ enabled_var' = v
    /\ config' = [config EXCEPT !.enabled = v]
    /\ IF config'.enabled THEN apply_settings(config', ok) ELSE restore_default(ok)
    /\ ui_pc' = "save520"
    /\ UNCHANGED <<supported, settingVars, reminderVars, schedVars, committed,
                   tick_snaps>>
    /\ UNCHANGED otherVars

\* on_temp_change without the test of enabled_var
on_temp_change_unguarded(val, ok) ==
    /\ Enter("on_temp_change", val, 1)
    /\ temp_var' = IntOfFloat(val)
    /\ config' = [config EXCEPT !.temperature = IntOfFloat(val)]
    /\ apply_settings(config', ok)
    /\ ui_pc' = "save520"
    /\ UNCHANGED <<supported, enabled_var, brightness_var, compensation_var,
                   reminderVars, schedVars, committed, tick_snaps>>
    /\ UNCHANGED otherVars

\* lines 325-331
on_temp_change(val, ok) ==
    /\ Enter("on_temp_change", val, IF enabled_var THEN 1 ELSE 0)
    /\ temp_var' = IntOfFloat(val)
    /\ config' = [config EXCEPT !.temperature = IntOfFloat(val)]
    /\ IF enabled_var THEN apply_settings(config', ok) ELSE NoSinkCall
    /\ ui_pc' = "save520"
    /\ UNCHANGED <<supported, enabled_var, brightness_var, compensation_var,
                   reminderVars, schedVars, committed, tick_snaps>>
    /\ UNCHANGED otherVars

\* set_temp without lines 338-340
set_temp_keeps_enabled(temp, ok) ==
    /\ Enter("set_temp", temp, 1)
    /\ temp_var' = temp
    /\ config' = [config EXCEPT !.temperature = temp]
    /\ apply_settings(config', ok)
    /\ ui_pc' = "save520"
    /\ UNCHANGED <<supported, enabled_var, brightness_var, compensation_var,
                   reminderVars, schedVars, committed, tick_snaps>>
    /\ UNCHANGED otherVars

\* set_temp without line 340
set_temp_flag_only(temp, ok) ==
    /\ Enter("set_temp", temp, 1)
    /\ temp_var' = temp
    /\ enabled_var' = TRUE
    /\ config' = [config EXCEPT !.temperature = temp]
    /\ apply_settings(config', ok)
    /\ ui_pc' = "save520"
    /\ UNCHANGED <<supported, brightness_var, compensation_var, reminderVars,
                   schedVars, committed, tick_snaps>>
    /\ UNCHANGED otherVars

\* lines 334-341
set_temp(temp, ok) ==
    /\ Enter("set_temp", temp, 1)
    /\ temp_var' = temp
    /\ enabled_var' = TRUE
    /\ config' = [config EXCEPT !.temperature = temp,
                                !.enabled = IF ~enabled_var THEN TRUE ELSE @]
    /\ apply_settings(config', ok)
    /\ ui_pc' = "save520"
    /\ UNCHANGED <<supported, brightness_var, compensation_var, reminderVars,
                   schedVars, committed, tick_snaps>>
    /\ UNCHANGED otherVars

\* on_bright_change applying before it stores the new brightness
on_bright_change_stale(val, ok) ==
    /\ Enter("on_bright_change", val, IF enabled_var THEN 1 ELSE 0)
    /\ brightness_var' = IntOfFloat(val)
    /\ config' = [config EXCEPT !.brightness = IntOfFloat(val)]
    /\ IF enabled_var THEN apply_settings(config, ok) ELSE NoSinkCall
    /\ ui_pc' = "save520"
    /\ UNCHANGED <<supported, enabled_var, temp_var, compensation_var,
                   reminderVars, schedVars, committed, tick_snaps>>
    /\ UNCHANGED otherVars

\* lines 344-350, keeping the old brightness when the display refuses the table
on_bright_change_rollback(val, ok) ==
    /\ Enter("on_bright_change", val, IF enabled_var THEN 1 ELSE 0)
    /\ brightness_var' = IntOfFloat(val)
    /\ config' = IF enabled_var /\ ~(supported /\ ok)
                 THEN config
                 ELSE [config EXCEPT !.brightness = IntOfFloat(val)]
    /\ IF enabled_var
       THEN apply_settings([config EXCEPT !.brightness = IntOfFloat(val)], ok)
       ELSE NoSinkCall
    /\ ui_pc' = "save520"
    /\ UNCHANGED <<supported, enabled_var, temp_var, compensation_var,
                   reminderVars, schedVars, committed, tick_snaps>>
    /\ UNCHANGED otherVars

\* lines 344-350
on_bright_change(val, ok) ==
    /\ Enter("on_bright_change", val, IF enabled_var THEN 1 ELSE 0)
    /\ brightness_var' = IntOfFloat(val)
    /\ config' = [config EXCEPT !.brightness = IntOfFloat(val)]
    /\ IF enabled_var THEN apply_settings(config', ok) ELSE NoSinkCall
    /\ ui_pc' = "save520"
    /\ UNCHANGED <<supported, enabled_var, temp_var, compensation_var,
                   reminderVars, schedVars, committed, tick_snaps>>
    /\ UNCHANGED otherVars

\* lines 353-356, entered with compensation_var already set to v (line 277)
on_compensation_change(v, ok) ==
    /\ Enter("on_compensation_change", 0, IF enabled_var THEN 1 ELSE 0)
    /\ compensation_var' = v
    /\ config' = [config EXCEPT !.brightness_compensation = v]
    /\ IF enabled_var THEN apply_settings(config', ok) ELSE NoSinkCall
    /\ ui_pc' = "save520"
    /\ UNCHANGED <<supported, enabled_var, temp_var, brightness_var,
                   reminderVars, schedVars, committed, tick_snaps>>
    /\ UNCHANGED otherVars

\* lines 366-379
reset(ok) ==
    /\ Enter("reset", 0, 1)
    /\ temp_var' = DefaultTemp
    /\ brightness_var' = DefaultBrightness
    /\ enabled_var' = FALSE
    /\ compensation_var' = TRUE
    /\ config' = [config EXCEPT !.temperature = DefaultTemp,
                                !.brightness = DefaultBrightness,
                                !.enabled = FALSE,
                                !.brightness_compensation = TRUE]
    /\ restore_default(ok)
    /\ ui_pc' = "save520"
    /\ UNCHANGED <<supported, reminderVars, schedVars, committed, tick_snaps>>
    /\ UNCHANGED otherVars

\* the reminder Checkbutton (lines 286-287) and the arrows of the interval
\* Spinbox (lines 292-293): the widget sets its variable, then calls save_config
reminder_widget(rv, iv) ==
    /\ Enter("save_config", 0, 0)
    /\ reminder_var' = rv
    /\ interval_var' = iv
    /\ ui_pc' = "save520"
    /\ NoSinkCall
    /\ UNCHANGED <<supported, config, enabled_var, settingVars, schedVars,
                   committed, tick_snaps>>
    /\ UNCHANGED otherVars

\* typing into the Spinbox changes its textvariable and calls nothing
\* (line 292: textvariable=self.interval_var)
type_interval(iv) ==
    /\ ui_pc = "idle"
    /\ iv # interval_var
    /\ interval_var' = iv
    /\ UNCHANGED <<supported, ramp, lastRequest, lastResult, config,
                   enabled_var, settingVars, reminder_var, schedVars, ui_pc,
                   ui_op, ui_arg, was_enabled, opCalls, committed, tick_snaps>>
    /\ UNCHANGED otherVars

----------------------------------------------------------------------------
(* EyeCareApp.save_config, lines 518-527, one dictionary write at a time *)

\* the reminder thread is between its first read of config (line 385) and
\* the end of its sleep (line 394)
MidTick == {"interval", "compare", "show", "set_last", "sleep", "wait"}

\* line 520
save_config_520 ==
    /\ ui_pc = "save520"
    /\ config' = [config EXCEPT !.reminder_enabled = reminder_var]
    /\ ui_pc' = "save522"
    /\ NoSinkCall
    /\ tick_clean' = (tick_clean /\ sched_pc \notin MidTick)
    /\ UNCHANGED <<supported, enabled_var, settingVars, reminderVars, schedVars,
                   uiLocal, committed, tick_snaps>>
    /\ UNCHANGED <<reconf, labelVars, probeVars, histVars>>

\* lines 522-525, restarting the countdown as well
save_config_522_resets ==
    /\ ui_pc = "save522"
    /\ config' = [config EXCEPT !.reminder_interval = interval_var,
                                !.brightness_compensation = compensation_var]
    /\ committed' = ReminderFields(config')
    /\ tick_snaps' = IF sched_pc = "interval"
                     THEN tick_snaps \cup {committed'}
                     ELSE tick_snaps
    /\ ui_pc' = IF ui_op = "quit_app" THEN "exit" ELSE "idle"
    /\ NoSinkCall
    /\ last_reminder' = now
    /\ tick_clean' = (tick_clean /\ sched_pc \notin MidTick)
    /\ reconf' = IF interval_var < config.reminder_interval
                 THEN <<"lower", config.reminder_interval>>
                 ELSE IF interval_var > config.reminder_interval
                 THEN <<"raise", config.reminder_interval>>
                 ELSE reconf
    /\ UNCHANGED <<supported, enabled_var, settingVars, reminderVars, running,
                   now, reminders, sched_pc, tick_enabled, interval, uiLocal>>
    /\ UNCHANGED <<labelVars, probeVars, histVars>>

\* lines 522-525
save_config_522 ==
    /\ ui_pc = "save522"
    /\ config' = [config EXCEPT !.reminder_interval = interval_var,
                                !.brightness_compensation = compensation_var]
    /\ committed' = ReminderFields(config')
    /\ tick_snaps' = IF sched_pc = "interval"
                     THEN tick_snaps \cup {committed'}
                     ELSE tick_snaps
    /\ ui_pc' = IF ui_op = "quit_app" THEN "exit" ELSE "idle"
    /\ NoSinkCall
    /\ tick_clean' = (tick_clean /\ sched_pc \notin MidTick)
    /\ reconf' = IF interval_var < config.reminder_interval
                 THEN <<"lower", config.reminder_interval>>
                 ELSE IF interval_var > config.reminder_interval
                 THEN <<"raise", config.reminder_interval>>
                 ELSE reconf
    /\ UNCHANGED <<supported, enabled_var, settingVars, reminderVars, schedVars,
                   uiLocal>>
    /\ UNCHANGED <<labelVars, probeVars, histVars>>

----------------------------------------------------------------------------
(* EyeCareApp.quit_app, lines 473-484 *)

\* line 474
quit_app_signal ==
    /\ Enter("quit_app", 0, 0)
    /\ running' = FALSE
    /\ ui_pc' = "cleanup"
    /\ NoSinkCall
    /\ UNCHANGED <<supported, config, enabled_var, settingVars, reminderVars,
                   loopVars, committed, tick_snaps>>
    /\ UNCHANGED otherVars

\* line 475: GammaController.cleanup, lines 138-143
cleanup(ok) ==
    /\ ui_pc = "cleanup"
    /\ IF supported
       THEN restore_default(ok) /\ opCalls' = opCalls + 1
       ELSE NoSinkCall /\ opCalls' = opCalls
    /\ ui_pc' = "save520"
    /\ UNCHANGED <<supported, config, enabled_var, settingVars, reminderVars,
                   schedVars, ui_op, ui_arg, was_enabled, committed, tick_snaps>>
    /\ UNCHANGED otherVars

\* lines 482-484: the process ends, and its daemon threads with it
quit_app_exit ==
    /\ ui_pc = "exit"
    /\ ui_pc' = "exited"
    /\ NoSinkCall
    /\ UNCHANGED <<supported, config, enabled_var, settingVars, reminderVars,
                   schedVars, uiLocal, committed, tick_snaps>>
    /\ UNCHANGED otherVars

----------------------------------------------------------------------------
(* EyeCareApp.start_reminder_thread.loop, lines 383-394 *)

uiVars == <<supported, ramp, lastRequest, lastResult, enabled_var, settingVars,
            reminderVars, ui_pc, uiLocal, config, committed, running>>

Alive == ui_pc # "exited"

\* line 384
loop_while ==
    /\ Alive /\ sched_pc = "while"
    /\ sched_pc' = IF running THEN "if_enabled" ELSE "done"
    /\ UNCHANGED <<uiVars, last_reminder, now, reminders, tick_enabled,
                   interval, tick_snaps>>
    /\ UNCHANGED otherVars

\* line 385 with the test of reminder_enabled left out
loop_if_enabled_always ==
    /\ Alive /\ sched_pc = "if_enabled"
    /\ tick_enabled' = TRUE
    /\ tick_snaps' = {committed}
    /\ sched_pc' = "interval"
    /\ tick_clean' = (ui_pc \notin {"save520", "save522"})
    /\ UNCHANGED <<uiVars, last_reminder, now, reminders, interval>>
    /\ UNCHANGED <<reconf, labelVars, probeVars, histVars>>

\* line 385, restarting the countdown on a tick that finds reminders off
loop_if_enabled_idle_resets ==
    /\ Alive /\ sched_pc = "if_enabled"
    /\ tick_enabled' = config.reminder_enabled
    /\ tick_snaps' = IF tick_enabled' THEN {committed} ELSE {}
    /\ sched_pc' = IF tick_enabled' THEN "interval" ELSE "sleep"
    /\ last_reminder' = IF tick_enabled' THEN last_reminder ELSE now
    /\ tick_clean' = (ui_pc \notin {"save520", "save522"})
    /\ UNCHANGED <<uiVars, now, reminders, interval>>
    /\ UNCHANGED <<reconf, labelVars, probeVars, histVars>>

\* line 385
loop_if_enabled ==
    /\ Alive /\ sched_pc = "if_enabled"
    /\ tick_enabled' = config.reminder_enabled
    /\ tick_snaps' = IF tick_enabled' THEN {committed} ELSE {}
    /\ sched_pc' = IF tick_enabled' THEN "interval" ELSE "sleep"
    /\ tick_clean' = (ui_pc \notin {"save520", "save522"})
    /\ UNCHANGED <<uiVars, last_reminder, now, reminders, interval>>
    /\ UNCHANGED <<reconf, labelVars, probeVars, histVars>>

\* line 386 with the interval the program started with in place of the
\* stored one
loop_interval_default ==
    /\ Alive /\ sched_pc = "interval"
    /\ interval' = InitInterval * SecondsPerMinute
    /\ sched_pc' = "compare"
    /\ UNCHANGED <<uiVars, last_reminder, now, reminders, tick_enabled,
                   tick_snaps>>
    /\ UNCHANGED otherVars

\* line 386
loop_interval ==
    /\ Alive /\ sched_pc = "interval"
    /\ interval' = config.reminder_interval * SecondsPerMinute
    /\ sched_pc' = "compare"
    /\ UNCHANGED <<uiVars, last_reminder, now, reminders, tick_enabled,
                   tick_snaps>>
    /\ UNCHANGED otherVars

\* line 387 with > in place of >=
Due_strict(t, last, iv) == t - last > iv

\* line 387
Due(t, last, iv) == t - last >= iv

loop_compare ==
    /\ Alive /\ sched_pc = "compare"
    /\ sched_pc' = IF Due(now, last_reminder, interval) THEN "show" ELSE "sleep"
    /\ tick_snaps' = {}
    /\ UNCHANGED <<uiVars, last_reminder, now, reminders, tick_enabled,
                   interval>>
    /\ UNCHANGED otherVars

\* the UI thread is in the Tk main loop and not inside a callback
InEventLoop == ui_pc = "idle"

\* line 388 with a call of apply_settings added
loop_show_applies ==
    /\ Alive /\ sched_pc = "show"
    /\ ui_pc \in {"run", "idle"}
    /\ reminders' = IF InEventLoop THEN reminders + 1 ELSE reminders
    /\ last_shown' = IF InEventLoop THEN now ELSE last_shown
    /\ sched_pc' = "set_last"
    /\ apply_settings(config, TRUE)
    /\ UNCHANGED <<supported, enabled_var, settingVars, reminderVars, ui_pc,
                   uiLocal, config, committed, running>>
    /\ UNCHANGED <<last_reminder, now, tick_enabled, interval, tick_snaps>>
    /\ UNCHANGED <<tick_clean, reconf, labelVars, probeVars, prev_idle>>

\* line 388: show_reminder posts the Reminder to the UI (line 433).  The
\* call waits while the UI thread is inside a callback; before mainloop()
\* it raises RuntimeError, which lines 434-435 swallow: no Reminder.
loop_show ==
    /\ Alive /\ sched_pc = "show"
    /\ ui_pc \in {"run", "idle"}
    /\ reminders' = IF InEventLoop THEN reminders + 1 ELSE reminders
    /\ last_shown' = IF InEventLoop THEN now ELSE last_shown
    /\ sched_pc' = "set_last"
    /\ UNCHANGED <<uiVars, last_reminder, now, tick_enabled, interval,
                   tick_snaps>>
    /\ UNCHANGED <<tick_clean, reconf, labelVars, probeVars, prev_idle>>

\* line 389 left out
loop_set_last_skipped ==
    /\ Alive /\ sched_pc = "set_last"
    /\ sched_pc' = "sleep"
    /\ UNCHANGED <<uiVars, last_reminder, now, reminders, tick_enabled,
                   interval, tick_snaps>>
    /\ UNCHANGED otherVars

\* line 389
loop_set_last ==
    /\ Alive /\ sched_pc = "set_last"
    /\ last_reminder' = now
    /\ sched_pc' = "sleep"
    /\ UNCHANGED <<uiVars, now, reminders, tick_enabled, interval, tick_snaps>>
    /\ UNCHANGED otherVars

\* lines 390-393: the label update is posted to the UI thread.  The call
\* waits while the UI thread is inside a callback; before mainloop() it
\* raises RuntimeError, which lines 392-393 swallow: nothing is posted.
loop_post ==
    /\ Alive /\ sched_pc = "sleep"
    /\ ui_pc \in {"run", "idle"}
    /\ label_posts' = IF InEventLoop
                      THEN Min(label_posts + 1, MaxPosts)
                      ELSE label_posts
    /\ sched_pc' = "wait"
    /\ UNCHANGED <<uiVars, last_reminder, now, reminders, tick_enabled,
                   interval, tick_snaps>>
    /\ UNCHANGED <<tick_clean, reconf, remind_label, probeVars, histVars>>

\* line 394: the thread sleeps d seconds.  The locals of the tick are dead
\* from here on and are cleared.
loop_sleep(d) ==
    /\ Alive /\ sched_pc = "wait"
    /\ d >= SleepSeconds
    /\ now + d <= MaxTime
    /\ ui_pc = "run" => now + d <= MaxStartup
    /\ d = SleepSeconds => now % SecondsPerMinute < MaxDrift
    /\ now' = now + d
    /\ sched_pc' = "while"
    /\ tick_enabled' = FALSE
    /\ interval' = 0
    /\ tick_snaps' = {}
    /\ tick_clean' = FALSE
    /\ reconf' = IF tick_clean THEN NoReconf ELSE reconf
    /\ prev_idle' = ~tick_enabled
    /\ UNCHANGED <<uiVars, last_reminder, reminders>>
    /\ UNCHANGED <<labelVars, probeVars, last_shown>>

SleepSteps == {SleepSeconds, SecondsPerMinute}

\* line 394 when time.sleep(1) lasts its one second
loop_sleep_one ==
    /\ Alive /\ sched_pc = "wait"
    /\ now + SleepSeconds <= MaxTime
    /\ ui_pc = "run" => now + SleepSeconds <= MaxStartup
    /\ now' = now + SleepSeconds
    /\ sched_pc' = "while"
    /\ tick_enabled' = FALSE
    /\ interval' = 0
    /\ tick_snaps' = {}
    /\ tick_clean' = FALSE
    /\ reconf' = IF tick_clean THEN NoReconf ELSE reconf
    /\ prev_idle' = ~tick_enabled
    /\ UNCHANGED <<uiVars, last_reminder, reminders>>
    /\ UNCHANGED <<labelVars, probeVars, last_shown>>

----------------------------------------------------------------------------
(* EyeCareApp.update_remind_label, lines 397-405, run by the Tk main loop for
   a call the reminder thread has posted.  The text is kept as <<"off">> for
   the reminders-off text and <<"next", mins, secs>> for the countdown. *)

update_remind_label ==
    /\ Enter("update_remind_label", 0, 0)
    /\ label_posts > 0
    /\ label_posts' = label_posts - 1
    /\ remind_label' =
          IF ~config.reminder_enabled
          THEN <<"off">>
          ELSE LET left == config.reminder_interval * SecondsPerMinute
                               - (now - last_reminder)
               IN  IF left > 0
                   THEN <<"next", left \div SecondsPerMinute,
                          left % SecondsPerMinute>>
                   ELSE remind_label
    /\ ui_pc' = "idle"
    /\ NoSinkCall
    /\ UNCHANGED <<supported, config, enabled_var, settingVars, reminderVars,
                   schedVars, committed, tick_snaps>>
    /\ UNCHANGED <<tick_clean, reconf, probeVars, histVars>>

----------------------------------------------------------------------------
(* GammaController._kelvin_to_rgb called on its own *)

\* every hundredth kelvin of the modelled domain from 1000 K on
KelvinInputs == {1000 + 100 * k : k \in 0..56}

probe_kelvin(kelvin) ==
    /\ probe_in' = kelvin
    /\ probe_out' = kelvin_to_rgb(kelvin)
    /\ probe_fn' = "_kelvin_to_rgb"
    /\ UNCHANGED <<uiVars, loopVars, tick_snaps, tick_clean, reconf, labelVars,
                   histVars>>

----------------------------------------------------------------------------
(* The ramp loop of GammaController.set_gamma, lines 113-129, on its own.
   The ratios are ones a float holds exactly. *)

RatioInputs == {0, 2500, 5000, 7500, 10000}
RatioTriples == {<<r, g, b>> : r \in RatioInputs, g \in RatioInputs,
                               b \in RatioInputs}
BrightInputs == {-10, 0, 1, 20, 29, 50, 99, 100, 101, 113, 150, 200}

probe_ramp(ratios, brightness) ==
    /\ probe_fn = "none"
    /\ probe_in' = <<ratios, brightness>>
    /\ probe_out' = build_ramp(ratios, brightness)
    /\ probe_fn' = "set_gamma"
    /\ UNCHANGED <<uiVars, loopVars, tick_snaps, tick_clean, reconf, labelVars,
                   histVars>>

----------------------------------------------------------------------------
(* Specifications *)

UIStep ==
    \/ run
    \/ \E ok \in BOOLEAN : toggle_eye_care("toggle_eye_care", ~enabled_var, ok)
    \/ \E ok \in BOOLEAN : toggle_eye_care("tray_toggle", ~enabled_var, ok)
    \/ \E val \in ScaleTemps, ok \in BOOLEAN : on_temp_change(val, ok)
    \/ \E temp \in Presets, ok \in BOOLEAN : set_temp(temp, ok)
    \/ \E val \in ScaleBrights, ok \in BOOLEAN : on_bright_change(val, ok)
    \/ \E ok \in BOOLEAN : on_compensation_change(~compensation_var, ok)
    \/ \E ok \in BOOLEAN : reset(ok)
    \/ reminder_widget(~reminder_var, interval_var)
    \/ \E iv \in IntervalInputs : reminder_widget(reminder_var, iv)
    \/ \E iv \in IntervalInputs : type_interval(iv)
    \/ save_config_520
    \/ save_config_522
    \/ quit_app_signal
    \/ \E ok \in BOOLEAN : cleanup(ok)
    \/ quit_app_exit

LoopStep ==
    \/ loop_while
    \/ loop_if_enabled
    \/ loop_interval
    \/ loop_compare
    \/ loop_show
    \/ loop_set_last
    \/ loop_post
    \/ \E d \in SleepSteps : loop_sleep(d)

Next == UIStep \/ update_remind_label \/ LoopStep

\* the whole program
Spec == Init /\ [][Next]_vars

\* starts with the reminder fields of IntervalInputs: the controller
\* callbacks do not read them
CtlInit ==
    /\ Init
    /\ config.reminder_enabled
    /\ config.reminder_interval \in IntervalInputs

\* The UI thread alone.  The reminder thread writes last_reminder, reminders
\* and its own locals and no callback reads them, so the callbacks behave the
\* same whatever the reminder thread does.
CtlSpec == CtlInit /\ [][UIStep]_vars

\* starts with the display settings of a first run, which the reminder
\* thread does not read, and with a stored interval that the clock of the
\* model can reach
SchedInit ==
    /\ Init
    /\ config.temperature = InitTemp
    /\ config.brightness = DefaultBrightness
    /\ config.brightness_compensation
    /\ config.reminder_interval \in IntervalInputs

\* the start without a configuration file
ProbeInit == Init /\ config = DefaultConfig

\* starts with eye care off on a platform with gamma control: the label
\* does not depend on the display
LabelInit == SchedInit /\ supported /\ ~config.enabled

\* Both threads, with the callbacks that reach the reminder fields or the
\* enabled flag: every callback meets the reminder thread only through
\* save_config and quit_app.
SchedUIStep ==
    \/ run
    \/ toggle_eye_care("toggle_eye_care", ~enabled_var, TRUE)
    \/ reminder_widget(~reminder_var, interval_var)
    \/ \E iv \in IntervalInputs : reminder_widget(reminder_var, iv)
    \/ \E iv \in IntervalInputs : type_interval(iv)
    \/ save_config_520
    \/ save_config_522
    \/ quit_app_signal
    \/ cleanup(TRUE)
    \/ quit_app_exit

\* Both threads, with the two callbacks that can turn eye care on
ReenableUIStep ==
    \/ run
    \/ toggle_eye_care("toggle_eye_care", ~enabled_var, TRUE)
    \/ \E temp \in Presets : set_temp(temp, TRUE)
    \/ save_config_520
    \/ save_config_522

ReenableSpec == SchedInit /\ [][ReenableUIStep \/ LoopStep]_vars

\* Both threads, with the reminder widgets and the label updates
LabelUIStep ==
    \/ run
    \/ update_remind_label
    \/ reminder_widget(~reminder_var, interval_var)
    \/ \E iv \in IntervalInputs : reminder_widget(reminder_var, iv)
    \/ save_config_520
    \/ save_config_522

LabelSpec == LabelInit /\ [][LabelUIStep \/ LoopStep]_vars

\* _kelvin_to_rgb alone
KelvinSpec ==
    ProbeInit /\ [][\E kelvin \in KelvinInputs : probe_kelvin(kelvin)]_vars

\* the ramp loop alone
RampSpec ==
    ProbeInit /\ [][\E ratios \in RatioTriples, brightness \in BrightInputs :
                  probe_ramp(ratios, brightness)]_vars

\* The reminder thread alone, ticking once a second, with the UI thread
\* entering its main loop and then doing nothing: the reminder flag and the
\* interval stay as they are, quit_app is not called.  The thread is a running daemon thread, so a step of it that
\* can be taken is taken in the end.
TickNext ==
    \/ run
    \/ loop_while
    \/ loop_if_enabled
    \/ loop_interval
    \/ loop_compare
    \/ loop_show
    \/ loop_set_last
    \/ loop_post
    \/ loop_sleep_one

FairSpec == SchedInit /\ [][TickNext]_vars /\ WF_vars(TickNext)

SchedNext == SchedUIStep \/ LoopStep

SchedSpec == SchedInit /\ [][SchedNext]_vars

----------------------------------------------------------------------------
(* The controller, checked under CtlSpec *)

Setters == {"on_temp_change", "on_bright_change", "on_compensation_change"}
RestoreRequest == <<DefaultTemp, DefaultBrightness, FALSE>>
SettingsRequest ==
    <<config.temperature, config.brightness, config.brightness_compensation>>

\* the callback op has returned
Returned(op) == ui_op = op /\ ui_pc = "idle"

\* C1: after toggle_eye_care (or tray_toggle) has returned with the enabled
\* flag cleared, restore_default has been called once and, when the display
\* accepted the call, the display holds the identity ramp.
C1_DisableLeavesIdentity ==
    ((Returned("toggle_eye_care") \/ Returned("tray_toggle")) /\ ~enabled_var)
        => /\ opCalls = 1
           /\ lastRequest = RestoreRequest
           /\ (lastResult => ramp = IdentityRamp)

\* C2: a setter entered while enabled_var is false stores the new setting,
\* calls set_gamma not at all and leaves the display's table as it was, up to
\* and including its save_config.
C2_DisabledSettersLeaveSink ==
    /\ [][(ui_pc = "idle" /\ ui_pc' = "save520" /\ ui_op' \in Setters
                /\ ~enabled_var)
            => /\ ramp' = ramp
               /\ lastRequest' = lastRequest
               /\ lastResult' = lastResult
               /\ opCalls' = 0
               /\ (ui_op' = "on_temp_change"
                      => config'.temperature = IntOfFloat(ui_arg'))
               /\ (ui_op' = "on_bright_change"
                      => config'.brightness = IntOfFloat(ui_arg'))
               /\ (ui_op' = "on_compensation_change"
                      => config'.brightness_compensation = compensation_var')]_vars
    /\ [][(ui_op \in Setters /\ ui_pc \in {"save520", "save522"})
            => (ramp' = ramp /\ lastRequest' = lastRequest)]_vars

C2_Witness ==
    /\ Returned("on_bright_change")
    /\ ~was_enabled
    /\ supported
    /\ opCalls = 0
    /\ config.brightness = 50
    /\ ramp # SettingsRamp

\* C3: while eye care is enabled and the last set_gamma call succeeded, the
\* table on the display is the one built from the stored temperature,
\* brightness and compensation flag, and that call asked for exactly these.
C3_EnabledSinkFollowsSettings ==
    (ui_op # "quit_app" /\ config.enabled /\ lastResult)
        => (ramp = SettingsRamp /\ lastRequest = SettingsRequest)

C3_Witness ==
    /\ Returned("on_bright_change")
    /\ was_enabled
    /\ config.enabled
    /\ lastResult
    /\ config.brightness = 50
    /\ ramp = SettingsRamp
    /\ ramp # RampTable[config.temperature][DefaultBrightness][config.brightness_compensation]

\* C4: once set_temp(K) has run, the stored temperature is K, eye care is
\* enabled (flag and variable), and set_gamma has been called once, for the
\* new settings; when the display accepted the call it holds their ramp.
C4_PresetAppliesAndEnables ==
    (ui_op = "set_temp")
        => /\ config.temperature = ui_arg
           /\ temp_var = ui_arg
           /\ enabled_var
           /\ config.enabled
           /\ opCalls = 1
           /\ lastRequest = SettingsRequest
           /\ (lastResult => ramp = SettingsRamp)

C4_Witness ==
    /\ Returned("set_temp")
    /\ ~was_enabled
    /\ ui_arg = 2400
    /\ lastResult
    /\ ramp = SettingsRamp

\* C5: after reset has returned, temperature = 6500, brightness = 100,
\* compensation on, enabled = false and, when the display accepted the call,
\* the display holds the identity ramp; and no step of reset changes the
\* reminder fields or last_reminder.
C5_ResetState ==
    /\ [](Returned("reset")
            => /\ config.temperature = DefaultTemp
               /\ config.brightness = DefaultBrightness
               /\ config.brightness_compensation
               /\ ~config.enabled
               /\ (lastResult => ramp = IdentityRamp))
    /\ [][(ui_op' = "reset" /\ ui_pc' # ui_pc)
            => /\ ReminderFields(config') = ReminderFields(config)
               /\ last_reminder' = last_reminder]_vars

C5_ResetEntered == Returned("reset") /\ lastResult /\ was_enabled

\* C6: when quit_app ends the process on a platform with gamma control, the
\* loop has been told to stop, restore_default has been called exactly once
\* and, when the display accepted the call, the display holds the identity
\* ramp.
C6_QuitRestoresIdentityOnce ==
    (ui_pc = "exited" /\ supported)
        => /\ ~running
           /\ opCalls = 1
           /\ lastRequest = RestoreRequest
           /\ (lastResult => ramp = IdentityRamp)

----------------------------------------------------------------------------
(* The reminder thread against the UI thread, checked under SchedSpec *)

\* remainingSeconds() of the specification: max(0, interval - elapsed)
Remaining ==
    Max(0, config.reminder_interval * SecondsPerMinute - (now - last_reminder))

\* C7: when quit_app ends the process, the reminder loop has already exited.
C7_LoopExitedBeforeExit == (ui_pc = "exited") => (sched_pc = "done")

\* C8: once quit_app has cleared running, the reminder thread emits no
\* Reminder and does not write last_reminder.
C8_NoTickAfterSignal ==
    [][(~running) => (reminders' = reminders /\ last_reminder' = last_reminder)]_vars

\* C9: the reminder fields a tick has read (reminder_enabled at line 385,
\* reminder_interval at line 386) are the fields as they stood together
\* after some whole save_config, never a mix of two of them.
C9_NoTornRead ==
    (sched_pc = "compare")
        => \E snap \in tick_snaps :
              /\ tick_enabled = snap[1]
              /\ interval = snap[2] * SecondsPerMinute

\* C10: a tick that finds reminders enabled and now - last_reminder >= interval
\* emits one Reminder, then sets last_reminder to now, which makes the time
\* left the whole interval again; a tick that finds less emits nothing and
\* leaves last_reminder alone; nothing else emits or writes last_reminder.
C10_DueTickFiresOnce ==
    /\ [][(sched_pc = "compare" /\ sched_pc' # "compare")
            => /\ tick_enabled
               /\ IF now - last_reminder >= interval
                  THEN sched_pc' = "show"
                  ELSE sched_pc' = "sleep"
               /\ reminders' = reminders
               /\ last_reminder' = last_reminder]_vars
    /\ [][(sched_pc = "show" /\ sched_pc' # "show")
            => (reminders' = reminders + 1 /\ sched_pc' = "set_last"
                /\ last_reminder' = last_reminder)]_vars
    /\ [][(sched_pc = "set_last" /\ sched_pc' # "set_last")
            => /\ last_reminder' = now'
               /\ reminders' = reminders
               /\ Remaining' = config'.reminder_interval * SecondsPerMinute
               /\ sched_pc' = "sleep"]_vars
    /\ [][(reminders' # reminders) => sched_pc = "show"]_vars
    /\ [][(last_reminder' # last_reminder) => sched_pc = "set_last"]_vars

C10_Witness ==
    /\ sched_pc = "sleep"
    /\ tick_enabled
    /\ reminders = 1
    /\ now = interval
    /\ last_reminder = now
    /\ Remaining = interval

\* a step of the UI thread: every callback step moves ui_pc, and typing into
\* the Spinbox changes interval_var
UIMoved == ui_pc' # ui_pc \/ interval_var' # interval_var

\* the reminder thread leaves line L
Leaves(L) == sched_pc = L /\ sched_pc' # L

\* C11: a tick that reads reminder_enabled false goes straight to the end of
\* the tick: it reads no interval, emits no Reminder and leaves last_reminder
\* alone, however long ago last_reminder was; only a tick that read the flag
\* true gets to lines 386-389, and a tick that no save_config overlapped
\* emits only while the flag is true.
C11_IdleTickEmitsNothing ==
    /\ [][Leaves("if_enabled")
            => /\ tick_enabled' = config.reminder_enabled
               /\ (~config.reminder_enabled => sched_pc' = "sleep")
               /\ reminders' = reminders
               /\ last_reminder' = last_reminder]_vars
    /\ [](sched_pc \in {"interval", "compare", "show", "set_last"}
            => tick_enabled)
    /\ []((sched_pc = "show" /\ tick_clean) => config.reminder_enabled)

C11_Witness ==
    /\ ~config.reminder_enabled
    /\ sched_pc = "sleep"
    /\ tick_clean
    /\ ~tick_enabled
    /\ now - last_reminder >= 2 * config.reminder_interval * SecondsPerMinute
    /\ reminders = 0

\* C12: each tick reads reminder_enabled and reminder_interval from config as
\* they stand when it runs, so a tick that begins after save_config has stored
\* a change compares against the new interval and obeys the new flag; and no
\* step of the UI thread moves the reminder thread, its locals or its
\* counters: the loop is not restarted.
C12_ReconfigurationSeenByNextTick ==
    /\ [][Leaves("interval")
            => /\ interval' = config.reminder_interval * SecondsPerMinute
               /\ sched_pc' = "compare"]_vars
    /\ []((sched_pc = "compare" /\ tick_clean)
            => /\ tick_enabled = config.reminder_enabled
               /\ interval = config.reminder_interval * SecondsPerMinute)
    /\ []((sched_pc = "sleep" /\ tick_clean /\ ~config.reminder_enabled)
            => ~tick_enabled)
    /\ [][UIMoved
            => UNCHANGED <<sched_pc, tick_enabled, interval, now, reminders>>]_vars

C12_Witness ==
    /\ sched_pc = "compare"
    /\ tick_clean
    /\ reconf[1] = "lower"
    /\ interval = SecondsPerMinute
    /\ reminders = 1
    /\ now > last_reminder

\* C13: no step of the UI thread writes last_reminder, so a change of the
\* interval or of the reminder flag keeps the time already elapsed; and a tick
\* that begins after the interval was raised fires only when now -
\* last_reminder has reached the interval now stored, never for a deadline
\* that only the old, smaller interval had set.
C13_ElapsedKeptAcrossReconfiguration ==
    /\ [][UIMoved => last_reminder' = last_reminder]_vars
    /\ []((sched_pc = "show" /\ tick_clean)
            => now - last_reminder >= config.reminder_interval * SecondsPerMinute)
    /\ [][(Leaves("compare") /\ tick_clean /\ reconf[1] = "raise"
                /\ now - last_reminder
                      < config.reminder_interval * SecondsPerMinute)
            => (sched_pc' = "sleep" /\ reminders' = reminders)]_vars

C13_Witness ==
    /\ sched_pc = "sleep"
    /\ tick_clean
    /\ tick_enabled
    /\ reconf[1] = "raise"
    /\ interval = 2 * SecondsPerMinute
    /\ now - last_reminder >= SecondsPerMinute
    /\ now - last_reminder < interval
    /\ last_reminder > 0

\* the time since the last Reminder (or since the start)
Elapsed == now - last_reminder

\* C14 as stated: the interval is lowered while a wait is under way, to a
\* value the elapsed time has already reached; the first tick that begins
\* after the change emits no Reminder.
C14_LoweredIntervalDoesNotFire ==
    [][(Leaves("compare") /\ tick_clean /\ reconf[1] = "lower"
            /\ Elapsed < reconf[2] * SecondsPerMinute
            /\ Elapsed >= config.reminder_interval * SecondsPerMinute)
        => sched_pc' # "show"]_vars

\* C14, amended: in that case the first tick that begins after the change
\* does emit a Reminder, because the elapsed time is kept and is compared
\* with the new interval.
C14_LoweredIntervalFiresOnNextTick ==
    /\ [][(Leaves("compare") /\ tick_clean /\ reconf[1] = "lower"
                /\ Elapsed < reconf[2] * SecondsPerMinute
                /\ Elapsed >= config.reminder_interval * SecondsPerMinute)
            => sched_pc' = "show"]_vars
    /\ [][(Leaves("show") /\ tick_clean /\ reconf[1] = "lower")
            => reminders' = reminders + 1]_vars

C14_Witness ==
    /\ sched_pc = "set_last"
    /\ tick_clean
    /\ reconf[1] = "lower"
    /\ Elapsed < reconf[2] * SecondsPerMinute
    /\ Elapsed >= config.reminder_interval * SecondsPerMinute
    /\ interval = config.reminder_interval * SecondsPerMinute
    /\ reminders = 1

\* C15: a toggle_eye_care or set_temp call that turns eye care on from off
\* sets last_reminder to now, so the time left is the whole interval again.
C15_ReenableResetsLastReminder ==
    [][(ui_pc = "idle" /\ ui_pc' = "save520"
            /\ ui_op' \in {"toggle_eye_care", "tray_toggle", "set_temp"}
            /\ ~config.enabled /\ config'.enabled)
        => (last_reminder' = now' /\ Remaining'
                = config'.reminder_interval * SecondsPerMinute)]_vars

\* C17: on a platform without gamma control every set_gamma and
\* restore_default returns False and leaves the display's table alone, the
\* callback or shutdown that made the call goes on to its next line, and the
\* reminder thread compares, emits and records as on any platform.
C17_UnsupportedDegradesToNoOp ==
    /\ [](~supported => (ramp = IdentityRamp /\ ~lastResult))
    /\ [][(~supported /\ UIMoved)
            => /\ ramp' = ramp
               /\ ~lastResult'
               /\ (ui_pc = "idle" => ui_pc' \in {"idle", "save520", "cleanup"})
               /\ (ui_pc = "cleanup" => (ui_pc' = "save520" /\ opCalls' = opCalls))]_vars
    /\ [][(~supported /\ Leaves("compare"))
            => sched_pc' = IF Elapsed >= interval THEN "show" ELSE "sleep"]_vars
    /\ [][(~supported /\ Leaves("show")) => reminders' = reminders + 1]_vars

C17_Witness ==
    /\ ~supported
    /\ Returned("toggle_eye_care")
    /\ ~was_enabled
    /\ config.enabled
    /\ opCalls = 1
    /\ lastRequest = SettingsRequest
    /\ ~lastResult
    /\ ramp = IdentityRamp
    /\ reminders = 1

\* C16: each run of update_remind_label with reminders on leaves the label
\* showing max(0, interval - elapsed) as minutes and seconds: 00:00 once the
\* elapsed time has reached the interval, never an older text.
C16_LabelShowsRemaining ==
    [][(ui_op' = "update_remind_label" /\ label_posts' < label_posts
            /\ config.reminder_enabled)
        => remind_label' = <<"next", Remaining \div SecondsPerMinute,
                             Remaining % SecondsPerMinute>>]_vars

\* C18: when the set_gamma call of a callback returns False, the display's
\* table stays what it was, the callback has still stored the new setting and
\* goes on to save_config, and it has called set_gamma once; save_config
\* calls it no more.
C18_FailedApplySwallowed ==
    /\ [][(ui_pc = "idle" /\ ui_pc' = "save520" /\ opCalls' > 0 /\ ~lastResult')
            => /\ ramp' = ramp
               /\ opCalls' = 1
               /\ (ui_op' = "on_temp_change"
                      => config'.temperature = IntOfFloat(ui_arg'))
               /\ (ui_op' = "on_bright_change"
                      => config'.brightness = IntOfFloat(ui_arg'))
               /\ (ui_op' = "on_compensation_change"
                      => config'.brightness_compensation = compensation_var')
               /\ (ui_op' = "set_temp"
                      => (config'.temperature = ui_arg' /\ config'.enabled))
               /\ (ui_op' \in {"toggle_eye_care", "tray_toggle"}
                      => config'.enabled = enabled_var')
               /\ (config'.enabled
                      => lastRequest' = <<config'.temperature, config'.brightness,
                                          config'.brightness_compensation>>)]_vars
    /\ [][(ui_op \in Setters /\ ui_pc \in {"save520", "save522"} /\ ~lastResult)
            => (opCalls' = opCalls /\ ~lastResult' /\ ramp' = ramp
                /\ config'.brightness = config.brightness
                /\ config'.temperature = config.temperature)]_vars

C18_Witness ==
    /\ Returned("on_bright_change")
    /\ was_enabled
    /\ supported
    /\ ~lastResult
    /\ opCalls = 1
    /\ config.brightness = 50
    /\ lastRequest = SettingsRequest
    /\ ramp = RampTable[config.temperature][DefaultBrightness][config.brightness_compensation]
    /\ ramp # SettingsRamp

\* C19: whenever the last call that reached the display was the one
\* restore_default makes (6500 K, brightness 100, no compensation) and it
\* succeeded, entry i of each of the three channels of the display's table is
\* min(65535, i * 256).
C19_RestoreInstallsIdentity ==
    (lastRequest = RestoreRequest /\ lastResult)
        => \A ch \in 1..3, i \in 0..(RampSize - 1) :
              ramp[ch][i] = Min(RampMax, i * RampStep)

\* C20: _kelvin_to_rgb(6500) returns (1.0, 1.0, 1.0).
C20_Kelvin6500IsWhite ==
    (probe_in = DefaultTemp) => probe_out = <<RatioScale, RatioScale, RatioScale>>

----------------------------------------------------------------------------
(* The ramp loop, checked under RampSpec *)

\* the ramp loop was run on ratios within [0, 1] and a brightness within
\* [0, 100]
ProbedInDomain ==
    /\ probe_fn = "set_gamma"
    /\ \A ch \in 1..3 : probe_in[1][ch] >= 0 /\ probe_in[1][ch] <= RatioScale
    /\ probe_in[2] >= 0 /\ probe_in[2] <= DefaultBrightness

\* C21: for ratios within [0, 1] and a brightness within [0, 100], each
\* channel of the table the ramp loop builds starts at 0, never decreases
\* with the index, and has every entry within 0..65535.
C21_RampMonotoneInRange ==
    ProbedInDomain
        => \A ch \in 1..3 :
              /\ probe_out[ch][0] = 0
              /\ \A i \in 0..(RampSize - 1) :
                    probe_out[ch][i] >= 0 /\ probe_out[ch][i] <= RampMax
              /\ \A i \in 0..(RampSize - 2) :
                    probe_out[ch][i] <= probe_out[ch][i + 1]

C21_Witness ==
    /\ ProbedInDomain
    /\ probe_in = <<(<<10000, 7500, 2500>>), 50>>
    /\ probe_out[1][RampSize - 1] = 32640
    /\ probe_out[2][RampSize - 1] = 24480
    /\ probe_out[3][RampSize - 1] = 8160

\* C22: the table built for a brightness above 100 is the table built for
\* brightness 100, and the table built for a brightness below 0 is the
\* table built for brightness 0.
C22_BrightnessClamped ==
    (probe_fn = "set_gamma")
        => /\ (probe_in[2] > DefaultBrightness
                  => probe_out = build_ramp(probe_in[1], DefaultBrightness))
           /\ (probe_in[2] < 0 => probe_out = build_ramp(probe_in[1], 0))

----------------------------------------------------------------------------
(* The enabled flag, checked under CtlSpec *)

ControllerOps ==
    {"toggle_eye_care", "tray_toggle", "on_temp_change", "set_temp",
     "on_bright_change", "on_compensation_change", "reset"}

\* C23: from the moment a controller operation has done its work, through
\* its save_config and after it has returned, enabled_var and
\* config["enabled"] hold the same value; and the value of enabled_var a
\* setter tests is the stored one.
C23_EnabledFlagAgrees ==
    /\ []((ui_op \in ControllerOps) => (enabled_var = config.enabled))
    /\ [][(ui_pc = "idle" /\ ui_pc' = "save520" /\ ui_op' \in Setters)
            => (was_enabled' = config.enabled)]_vars

C23_Witness ==
    /\ Returned("set_temp")
    /\ ~was_enabled
    /\ enabled_var
    /\ config.enabled
    /\ ui_arg = 3400

----------------------------------------------------------------------------
(* Spacing and liveness of the Reminders *)

\* a step of the reminder thread
SchedMoved == sched_pc' # sched_pc \/ now' # now

\* C24: a Reminder that is not the first comes at least the interval (as the
\* tick read it, which for a tick that no save_config overlapped is the
\* stored reminder_interval * 60) after the Reminder before it.
C24_RemindersAnIntervalApart ==
    /\ [][(reminders' = reminders + 1 /\ reminders > 0)
            => (now - last_shown >= interval
                /\ interval >= SecondsPerMinute)]_vars
    /\ []((sched_pc = "show" /\ tick_clean)
            => interval = config.reminder_interval * SecondsPerMinute)

C24_Witness ==
    /\ reminders = 2
    /\ sched_pc = "set_last"
    /\ interval = SecondsPerMinute
    /\ last_shown = now
    /\ last_reminder = now - interval

\* C25: a tick that finds reminders off leaves last_reminder alone, so the
\* elapsed time goes on growing; and the first tick after reminders are
\* switched on again emits a Reminder when the elapsed time has reached the
\* interval.
C25_ElapsedAccumulatesWhileOff ==
    /\ [][(SchedMoved /\ sched_pc \in {"if_enabled", "sleep", "wait"}
                /\ ~tick_enabled' /\ ~tick_enabled)
            => (last_reminder' = last_reminder /\ reminders' = reminders)]_vars
    /\ [][(Leaves("compare") /\ prev_idle /\ tick_clean
                /\ Elapsed >= config.reminder_interval * SecondsPerMinute)
            => sched_pc' = "show"]_vars
    /\ [][(Leaves("show") /\ prev_idle) => reminders' = reminders + 1]_vars

C25_Witness ==
    /\ sched_pc = "set_last"
    /\ prev_idle
    /\ tick_clean
    /\ config.reminder_enabled
    /\ reminders = 1
    /\ last_reminder = 0
    /\ Elapsed > interval

\* C26: with the reminder thread running, the interval fixed and no
\* quit_app, when reminders are on a Reminder is emitted in the end, and the
\* elapsed time never gets one tick past the interval: the tick that finds
\* it reached emits.
C26_ReminderWithinATick ==
    /\ (config.reminder_enabled => <>(reminders >= 1))
    /\ [](config.reminder_enabled
            => Elapsed < config.reminder_interval * SecondsPerMinute
                            + SleepSeconds)
    /\ []((sched_pc = "show")
            => (Elapsed >= interval /\ Elapsed < interval + SleepSeconds))

C26_Witness ==
    /\ reminders = 1
    /\ config.reminder_interval = 2
    /\ last_shown = 2 * SecondsPerMinute
    /\ sched_pc = "wait"
    /\ Elapsed = 0

\* quit_app is past its cleanup call
AfterCleanup ==
    ui_op = "quit_app" /\ ui_pc \in {"save520", "save522", "exit", "exited"}

\* C27: no step of the reminder thread calls set_gamma or restore_default;
\* and from quit_app's cleanup on nothing calls them, so the table that
\* restore_default installed there stays on the display.
C27_SinkCalledOnlyByUIThread ==
    /\ [][SchedMoved => UNCHANGED <<ramp, lastRequest, lastResult, opCalls>>]_vars
    /\ [][AfterCleanup => UNCHANGED <<ramp, lastRequest, lastResult, opCalls>>]_vars
    /\ []((AfterCleanup /\ supported)
            => /\ lastRequest = RestoreRequest
               /\ (lastResult
                     => ramp = RampTable[DefaultTemp][DefaultBrightness][FALSE]))

C27_Witness ==
    /\ ui_pc = "exited"
    /\ ui_op = "quit_app"
    /\ supported
    /\ lastResult
    /\ lastRequest = RestoreRequest
    /\ sched_pc = "set_last"
    /\ reminders = 1
    /\ last_shown = now

====
